---- MODULE Spec2Model ----
(***************************************************************************)
(* Offline synchronization engine of syncdbg: the Collection facade, the   *)
(* in-memory StateManager, the durable SyncQueue and the SyncEngine's      *)
(* push/pull cycle, over one application collection.                       *)
(*                                                                         *)
(* Granularity: JavaScript runs each continuation to its next await        *)
(* without interruption, so one action is "the effect of the awaited       *)
(* storage or network call, followed by the synchronous code up to the     *)
(* next await".  Between two actions of one async function any action of   *)
(* another async function may run.  The application awaits each facade     *)
(* call before making the next one (one facade call in flight).            *)
(***************************************************************************)
EXTENDS Integers, Sequences, FiniteSets, TLC

\* ---------------------------------------------------------------- bounds
MaxCalls == 1        \* Spec: facade calls (add/update/delete) the application makes
MaxChanges == 1      \* Spec: remote changes the pull responses deliver, in total
QueueCalls == 1      \* SpecQueue: facade calls the application makes
ReplayCalls == 2     \* SpecReplay: facade calls the application makes
PullChanges == 2     \* SpecPull, SpecReliablePull: remote changes delivered, in total
MaxQueue == 3        \* SpecSort: operations (and distinct timestamps) in the stored queue
MaxStarts == 1       \* SpecLifecycle: start() calls after the one of the client's constructor
FacadeCalls == 2     \* SpecFacade: facade calls the application makes
LiveQueue == 1       \* SpecLive: operations in the stored queue
LiveChanges == 1     \* SpecLive: remote changes the pull responses deliver, in total
ConflictQueue == 2   \* SpecConflict: operations in the stored queue
MaxTime == 2         \* SpecResolver: largest timestamp of an operation or a document

DocIds == {"d1", "n1"}     \* "d1": a document known to the server; "n1": add()'s uuid
NewIds == {"n1"}           \* ids uuidv4() hands to add()
ServerTimes == {1, 2}      \* timestamps a pull response carries
Slots == {1, 2}            \* activations of triggerSync that may coexist
Strategies == {"serverWins", "clientWins", "fieldLevelMerge"}
Coll == "notes"
Callbacks == {"cb1", "cb2"}   \* callbacks the application may subscribe

\* ---------------------------------------------------------------- values
NoCursor == 0
Null == [null |-> "null"]
EmptyMap == [k \in {} |-> Null]

Put(m, k, v) == [x \in DOMAIN m \cup {k} |-> IF x = k THEN v ELSE m[x]]
Del(m, k) == [x \in DOMAIN m \ {k} |-> m[x]]
Has(m, k) == k \in DOMAIN m

\* { ...a, ...b }
Spread(a, b) == [f \in DOMAIN a \cup DOMAIN b |-> IF f \in DOMAIN b THEN b[f] ELSE a[f]]

\* Field values tell where a document's content comes from: "A" is written by
\* add(), "B" by update(), "R" by the server.
FullDoc(d, t) == [id |-> d, title |-> t, body |-> "x"]

VARIABLES
  online,        \* NetworkDetector.isOnline
  clock,         \* last value Date.now() returned
  state,         \* StateManager.state of the collection: docId -> document
  store,         \* persistence: the collection's store, docId -> document
  queue,         \* persistence: the sync queue store, operation id -> operation
  metaCursor,    \* persistence: _syncdbg_meta / lastPulledAt (.value)
  lastPulledAt,  \* SyncEngine.lastPulledAt
  isSyncing,     \* SyncEngine.isSyncing
  strategy,      \* SyncEngine.conflictStrategy (fixed at construction)
  load,          \* Collection.loadInitialData: "pending" | "done"
  cursorLoad,    \* SyncEngine.loadLastPulledAt: "pending" | "done"
  call,          \* the facade call in flight
  cyc,           \* the triggerSync activations, per slot
  callsLeft,     \* facade calls the application has yet to make
  changesLeft,   \* remote changes the server has yet to deliver
  usedDocIds,    \* the ids uuidv4() has handed to add()
  nOps,          \* operations built so far; an operation's id is its rank
  listeners,     \* NetworkDetector.listeners: the engine listeners subscribed
  unsubscribeNetwork,  \* SyncEngine.unsubscribeNetwork: the listener it removes
  stopped,       \* the last of start()/stop() called on the engine was stop()
  startsLeft,    \* start() calls the application has yet to make
  subscriptions, \* StateManager.subscriptions of the collection
  seen,          \* per callback: the lists the latest StateManager call passed it
  unsubscribed,  \* callbacks whose unsubscribe function was called last
  lastCall,      \* the call made last directly on the StateManager, the SyncQueue
                 \* or a conflict strategy, with its arguments and result
  keptLog        \* the last line handleFailedOperation logged of an operation it
                 \* kept queued: <<operation id, reason>>

vars == <<online, clock, state, store, queue, metaCursor, lastPulledAt, isSyncing,
          strategy, load, cursorLoad, call, cyc, callsLeft, changesLeft,
          usedDocIds, nOps, listeners, unsubscribeNetwork, stopped, startsLeft,
          subscriptions, seen, unsubscribed, lastCall, keptLog>>

\* What the engine's and the facade's steps leave alone
lifecycle == <<listeners, unsubscribeNetwork, stopped, startsLeft, subscriptions,
               unsubscribed, lastCall, keptLog>>


\* ------------------------------------------------------------ StateManager
addDoc(s, doc) == Put(s, doc.id, doc)

\* A patch that inserts the updates when the id is absent
updateDocUpsert(s, docId, updates) ==
  Put(s, docId, IF Has(s, docId) THEN Spread(s[docId], updates) ELSE updates)

updateDoc(s, docId, updates) ==
  IF Has(s, docId) THEN Put(s, docId, Spread(s[docId], updates)) ELSE s

deleteDoc(s, docId) == IF Has(s, docId) THEN Del(s, docId) ELSE s

\* data: the set of documents persistence.getAll returned
setCollectionState(data) ==
  [d \in {x.id : x \in data} |-> CHOOSE x \in data : x.id = d]

getCollectionState(s) == {s[d] : d \in DOMAIN s}

\* No callback invoked
Silent == [cb \in Callbacks |-> << >>]

\* A notification that passes the list the collection held before the call
notifySubscribersStale(s) ==
  [cb \in Callbacks |-> IF cb \in subscriptions THEN <<getCollectionState(state)>> ELSE << >>]

\* The callbacks that throw whenever they are called
Throwing == {"cb1"}

\* A forEach without the try/catch, the throwing callback having subscribed
\* first: the callbacks after it are not called
notifySubscribersUncaught(s) ==
  [cb \in Callbacks |->
     IF cb \in subscriptions /\ (Throwing \cap subscriptions) \subseteq {cb}
     THEN <<getCollectionState(s)>> ELSE << >>]

\* notifySubscribers: each subscribed callback is passed the collection's
\* list; what a callback throws is caught inside the forEach and logged
notifySubscribers(s) ==
  [cb \in Callbacks |-> IF cb \in subscriptions THEN <<getCollectionState(s)>> ELSE << >>]

\* The four mutating calls with their notification
DoSetCollectionState(data) ==
  /\ state' = setCollectionState(data)
  /\ seen' = notifySubscribers(state')

DoAddDoc(doc) ==
  /\ state' = addDoc(state, doc)
  /\ seen' = notifySubscribers(state')

\* A patch that notifies whether or not the id is present
DoUpdateDocNotifying(docId, updates) ==
  /\ state' = updateDoc(state, docId, updates)
  /\ seen' = notifySubscribers(state')

DoUpdateDoc(docId, updates) ==
  /\ state' = updateDoc(state, docId, updates)
  /\ seen' = IF Has(state, docId) THEN notifySubscribers(state') ELSE Silent

\* A removal that notifies whether or not the id is present
DoDeleteDocNotifying(docId) ==
  /\ state' = deleteDoc(state, docId)
  /\ seen' = notifySubscribers(state')

DoDeleteDoc(docId) ==
  /\ state' = deleteDoc(state, docId)
  /\ seen' = IF Has(state, docId) THEN notifySubscribers(state') ELSE Silent

\* No mutating call made directly since the last subscribe or unsubscribe
NoStateCall == [name |-> "none", docId |-> "none"]

\* subscribeToCollection: the callback joins the set and is passed the current
\* list; the function returned is Unsubscribe(cb)
Subscribe(cb) ==
  /\ subscriptions' = subscriptions \cup {cb}
  /\ seen' = [Silent EXCEPT ![cb] = <<getCollectionState(state)>>]
  /\ unsubscribed' = unsubscribed \ {cb}
  /\ lastCall' = NoStateCall
  /\ UNCHANGED <<online, clock, state, store, queue, metaCursor, lastPulledAt,
                 isSyncing, strategy, load, cursorLoad, call, cyc, callsLeft,
                 changesLeft, usedDocIds, nOps, listeners, unsubscribeNetwork,
                 stopped, startsLeft, keptLog>>

\* The function subscribeToCollection returned: subscribers.delete(callback)
\* An unsubscribe function that leaves the callback in the set
UnsubscribeKept(cb) ==
  /\ cb \in subscriptions
  /\ seen' = Silent
  /\ unsubscribed' = unsubscribed \cup {cb}
  /\ lastCall' = NoStateCall
  /\ UNCHANGED <<online, clock, state, store, queue, metaCursor, lastPulledAt,
                 isSyncing, strategy, load, cursorLoad, call, cyc, callsLeft,
                 changesLeft, usedDocIds, nOps, listeners, unsubscribeNetwork,
                 stopped, startsLeft, subscriptions, keptLog>>

Unsubscribe(cb) ==
  /\ cb \in subscriptions
  /\ subscriptions' = subscriptions \ {cb}
  /\ seen' = Silent
  /\ unsubscribed' = unsubscribed \cup {cb}
  /\ lastCall' = NoStateCall
  /\ UNCHANGED <<online, clock, state, store, queue, metaCursor, lastPulledAt,
                 isSyncing, strategy, load, cursorLoad, call, cyc, callsLeft,
                 changesLeft, usedDocIds, nOps, listeners, unsubscribeNetwork,
                 stopped, startsLeft, keptLog>>

\* What a direct call on the StateManager leaves alone
outsideState == <<online, clock, store, queue, metaCursor, lastPulledAt, isSyncing,
                  strategy, load, cursorLoad, call, cyc, callsLeft, changesLeft,
                  usedDocIds, nOps, listeners, unsubscribeNetwork, stopped,
                  startsLeft, subscriptions, unsubscribed, keptLog>>

\* Documents and lists the application may pass to the StateManager
Docs == {FullDoc(d, t) : d \in DocIds, t \in {"A", "B"}}
DocLists == {data \in SUBSET Docs : \A x, y \in data : x.id = y.id => x = y}

\* The application calls the StateManager's mutating methods itself
SetCollectionStateCall(data) ==
  /\ DoSetCollectionState(data)
  /\ lastCall' = [name |-> "setCollectionState", docId |-> "none"]
  /\ UNCHANGED outsideState

AddDocCall(doc) ==
  /\ DoAddDoc(doc)
  /\ lastCall' = [name |-> "addDoc", docId |-> doc.id]
  /\ UNCHANGED outsideState

UpdateDocCall(docId, updates) ==
  /\ DoUpdateDoc(docId, updates)
  /\ lastCall' = [name |-> "updateDoc", docId |-> docId]
  /\ UNCHANGED outsideState

DeleteDocCall(docId) ==
  /\ DoDeleteDoc(docId)
  /\ lastCall' = [name |-> "deleteDoc", docId |-> docId]
  /\ UNCHANGED outsideState

\* ------------------------------------------------------------ persistence
\* The PersistenceAdapter contract: a store is keyed by the value's id.
PersistSet(st, value) == Put(st, value.id, value)
PersistDelete(st, key) == Del(st, key)

RECURSIVE Perms(_)
Perms(S) ==
  IF S = {} THEN {<< >>}
  ELSE UNION {{<<x>> \o p : p \in Perms(S \ {x})} : x \in S}

\* persistence.getAll: the values of the store, in any enumeration order
PersistGetAll(st) == Perms({st[k] : k \in DOMAIN st})

\* --------------------------------------------------------------- SyncQueue
RECURSIVE InsertByTimestamp(_, _)
InsertByTimestamp(op, sorted) ==
  IF sorted = << >> THEN <<op>>
  ELSE IF Head(sorted).timestamp <= op.timestamp
       THEN <<Head(sorted)>> \o InsertByTimestamp(op, Tail(sorted))
       ELSE <<op>> \o sorted

\* operations.sort((a, b) => a.timestamp - b.timestamp): a stable sort
RECURSIVE SortByTimestamp(_)
SortByTimestamp(ops) ==
  IF ops = << >> THEN << >>
  ELSE InsertByTimestamp(ops[Len(ops)], SortByTimestamp(SubSeq(ops, 1, Len(ops) - 1)))

\* A getAll that returns the scan as the store enumerates it
QueueGetAllUnsorted(scan) == scan

\* A getAll that returns the oldest operation alone
QueueGetAllOldest(scan) ==
  IF scan = << >> THEN << >> ELSE <<Head(SortByTimestamp(scan))>>

\* SyncQueue.getAll on an enumeration of the queue store
QueueGetAll(scan) == SortByTimestamp(scan)

enqueue(q, op) == PersistSet(q, op)

\* A dequeue that removes the oldest operation when the id is not queued
dequeueOldest(q, operationId) ==
  IF Has(q, operationId) \/ q = EmptyMap THEN PersistDelete(q, operationId)
  ELSE PersistDelete(q, CHOOSE i \in DOMAIN q : \A j \in DOMAIN q : i <= j)

dequeue(q, operationId) == PersistDelete(q, operationId)

\* SyncQueue.dequeue called on its own with any operation id, queued or not;
\* persistence.delete resolves
Dequeue(operationId) ==
  /\ queue' = dequeue(queue, operationId)
  /\ lastCall' = [name |-> "dequeue", docId |-> operationId]
  /\ UNCHANGED <<online, clock, state, store, metaCursor, lastPulledAt, isSyncing,
                 strategy, load, cursorLoad, call, cyc, callsLeft, changesLeft,
                 usedDocIds, nOps, listeners, unsubscribeNetwork, stopped,
                 startsLeft, subscriptions, seen, unsubscribed, keptLog>>

\* -------------------------------------------------------- ConflictResolver
\* A Resolution: 'remote', 'local' or a document.
ResRemote == [kind |-> "remote"]
ResLocal == [kind |-> "local"]
ResDoc(doc) == [kind |-> "doc", doc |-> doc]

\* Values of a document's timestamp field ('updatedAt'): a string that
\* new Date() parses to the time n, or one it cannot parse
IsoDate(n) == [text |-> "date", time |-> n]
Garbage == [text |-> "garbage"]
TimestampField == "updatedAt"

\* new Date(doc[timestampField]).getTime(): a number, or NaN for a missing
\* field (new Date(undefined)) and for an unparsable string
NaN == [nan |-> TRUE, t |-> 0]
DateGetTime(doc) ==
  IF Has(doc, TimestampField) /\ doc[TimestampField].text = "date"
  THEN [nan |-> FALSE, t |-> doc[TimestampField].time]
  ELSE NaN

\* !remoteTimestamp: NaN and 0 are falsy
Falsy(number) == number.nan \/ number.t = 0

lastWriteWins(localOperation, remoteState) ==
  LET localTimestamp == localOperation.timestamp
      remoteTimestamp == DateGetTime(remoteState) IN
    IF Falsy(remoteTimestamp) THEN ResRemote
    ELSE IF localTimestamp > remoteTimestamp.t THEN ResLocal ELSE ResRemote

serverWins(localOperation, remoteState) == ResRemote
clientWins(localOperation, remoteState) == ResLocal

\* A merge that overlays the payload of any operation that has one, whatever
\* its type
fieldLevelMergeAnyType(localOperation, remoteState, now) ==
  IF localOperation.payload = Null
  THEN ResDoc(remoteState)
  ELSE LET mergedDoc == Spread(remoteState, localOperation.payload) IN
         ResDoc(IF Has(mergedDoc, TimestampField)
                THEN Put(mergedDoc, TimestampField, IsoDate(now))
                ELSE mergedDoc)

\* The merge at the time now: the remote document overlaid with the local
\* delta, its timestamp field set to new Date().toISOString() if the merged
\* document has a truthy one (any string of this model)
fieldLevelMergeAt(localOperation, remoteState, now) ==
  IF localOperation.type # "update" \/ localOperation.payload = Null
  THEN ResDoc(remoteState)
  ELSE LET mergedDoc == Spread(remoteState, localOperation.payload) IN
         ResDoc(IF Has(mergedDoc, TimestampField)
                THEN Put(mergedDoc, TimestampField, IsoDate(now))
                ELSE mergedDoc)

\* The documents the sync engine of this model handles carry no timestamp
\* field, so the time of its merges does not show.
fieldLevelMerge(localOperation, remoteState) ==
  fieldLevelMergeAt(localOperation, remoteState, clock)

conflictStrategy(strat, localOperation, remoteState) ==
  CASE strat = "serverWins" -> serverWins(localOperation, remoteState)
    [] strat = "clientWins" -> clientWins(localOperation, remoteState)
    [] OTHER -> fieldLevelMerge(localOperation, remoteState)

\* ------------------------------------------------------------------- facade
IdleCall == [pc |-> "idle", kind |-> "none", docId |-> "none", doc |-> Null,
             payload |-> Null, op |-> Null, outcome |-> "none"]

\* The call is over: its promise resolved ("ok") or rejected with the error
\* Collection.update throws ("notFound") or with the storage's ("storageError")
Settled(outcome) == [IdleCall EXCEPT !.outcome = outcome]

NoCall == call.pc = "idle"

Operation(opId, type, docId, payload, ts) ==
  [id |-> opId, type |-> type, collection |-> Coll, docId |-> docId,
   payload |-> payload, timestamp |-> ts]

\* Operations and remote documents of a conflict handed to a strategy
ConflictOperations ==
  {Operation(1, "update", "d1", [title |-> "B"], L) : L \in 0..MaxTime}
    \cup {Operation(1, "create", "d1", FullDoc("d1", "A"), 1),
           Operation(1, "delete", "d1", Null, 1)}

ConflictRemoteStates ==
  {FullDoc("d1", "R")}
    \cup {Spread(FullDoc("d1", "R"), [updatedAt |-> v]) :
            v \in {Garbage} \cup {IsoDate(n) : n \in 0..MaxTime}}

\* What a direct call of a strategy leaves alone
outsideResolver == <<online, clock, state, store, queue, metaCursor, lastPulledAt,
                     isSyncing, strategy, load, cursorLoad, call, cyc, callsLeft,
                     changesLeft, usedDocIds, nOps, listeners, unsubscribeNetwork,
                     stopped, startsLeft, subscriptions, seen, unsubscribed,
                     keptLog>>

\* lastWriteWins()({localOperation, remoteState})
LastWriteWinsCall(localOperation, remoteState) ==
  /\ lastCall' = [name |-> "lastWriteWins", docId |-> localOperation.docId,
                  localOperation |-> localOperation, remoteState |-> remoteState,
                  resolution |-> lastWriteWins(localOperation, remoteState)]
  /\ UNCHANGED outsideResolver

\* fieldLevelMerge()({localOperation, remoteState}) at the time now
FieldLevelMergeCall(localOperation, remoteState, now) ==
  /\ lastCall' = [name |-> "fieldLevelMerge", docId |-> localOperation.docId,
                  localOperation |-> localOperation, remoteState |-> remoteState,
                  now |-> now,
                  resolution |-> fieldLevelMergeAt(localOperation, remoteState, now)]
  /\ UNCHANGED outsideResolver

\* Collection.add up to its first await: uuid, addDoc, persistence.set issued
CallAdd ==
  /\ NoCall /\ callsLeft > 0
  /\ \E d \in NewIds \ usedDocIds :
       LET newDoc == FullDoc(d, "A") IN
         /\ DoAddDoc(newDoc)
         /\ call' = [pc |-> "persist", kind |-> "create", docId |-> d,
                     doc |-> newDoc, payload |-> newDoc, op |-> Null,
                     outcome |-> "pending"]
         /\ usedDocIds' = usedDocIds \cup {d}
  /\ callsLeft' = callsLeft - 1
  /\ UNCHANGED <<online, clock, store, queue, metaCursor, lastPulledAt, isSyncing,
                 strategy, load, cursorLoad, cyc, changesLeft, nOps>>
  /\ UNCHANGED lifecycle

\* Collection.update up to its first await: updateDoc, getDoc, then either the
\* not-found error or persistence.set of the merged document issued
\* An update operation that carries the merged document
UpdatePayloadMerged(updates, updatedDoc) == updatedDoc

\* payload: updates
UpdatePayload(updates, updatedDoc) == updates

CallUpdateOn(d) ==
  /\ NoCall /\ callsLeft > 0
  /\ LET updates == [title |-> "B"]
         merged == updateDoc(state, d, updates) IN
       /\ DoUpdateDoc(d, updates)
       /\ call' = IF Has(merged, d)
                  THEN [pc |-> "persist", kind |-> "update", docId |-> d,
                        doc |-> merged[d],
                        payload |-> UpdatePayload(updates, merged[d]), op |-> Null,
                        outcome |-> "pending"]
                  ELSE Settled("notFound")
  /\ callsLeft' = callsLeft - 1
  /\ UNCHANGED <<online, clock, store, queue, metaCursor, lastPulledAt, isSyncing,
                 strategy, load, cursorLoad, cyc, changesLeft, usedDocIds, nOps>>
  /\ UNCHANGED lifecycle

CallUpdate == \E d \in DocIds : CallUpdateOn(d)

\* Collection.delete up to its first await: deleteDoc, persistence.delete issued
CallDelete ==
  /\ NoCall /\ callsLeft > 0
  /\ \E d \in DocIds :
       /\ DoDeleteDoc(d)
       /\ call' = [pc |-> "persist", kind |-> "delete", docId |-> d,
                   doc |-> Null, payload |-> Null, op |-> Null,
                   outcome |-> "pending"]
  /\ callsLeft' = callsLeft - 1
  /\ UNCHANGED <<online, clock, store, queue, metaCursor, lastPulledAt, isSyncing,
                 strategy, load, cursorLoad, cyc, changesLeft, usedDocIds, nOps>>
  /\ UNCHANGED lifecycle

\* The collection's store after the call's own write
CallWrite(st) ==
  IF call.kind = "delete" THEN PersistDelete(st, call.docId)
  ELSE PersistSet(st, call.doc)

\* The document write completes; the operation is built (uuidv4(), Date.now())
\* and syncQueue.enqueue is issued
CallPersist ==
  /\ call.pc = "persist"
  /\ store' = CallWrite(store)
  /\ \E now \in {clock, clock + 1} \ {0} :
       /\ call' = [call EXCEPT !.pc = "enqueue",
                     !.op = Operation(nOps + 1, call.kind, call.docId, call.payload, now)]
       /\ clock' = now
       /\ nOps' = nOps + 1
  /\ UNCHANGED <<online, state, queue, metaCursor, lastPulledAt, isSyncing,
                 strategy, load, cursorLoad, cyc, callsLeft, changesLeft, usedDocIds>>
  /\ UNCHANGED <<lifecycle, seen>>

\* A rejection of the document write that is swallowed: the call goes on to
\* build and enqueue its operation
CallPersistSwallowed ==
  /\ call.pc = "persist"
  /\ call' = [call EXCEPT !.pc = "enqueue",
                 !.op = Operation(nOps + 1, call.kind, call.docId, call.payload, clock + 1)]
  /\ clock' = clock + 1
  /\ nOps' = nOps + 1
  /\ UNCHANGED <<online, state, store, queue, metaCursor, lastPulledAt, isSyncing,
                 strategy, load, cursorLoad, cyc, callsLeft, changesLeft, usedDocIds>>
  /\ UNCHANGED <<lifecycle, seen>>

\* The document write rejects: the call rejects to its caller
CallPersistFails ==
  /\ call.pc = "persist"
  /\ call' = Settled("storageError")
  /\ UNCHANGED <<online, clock, state, store, queue, metaCursor, lastPulledAt,
                 isSyncing, strategy, load, cursorLoad, cyc, callsLeft, changesLeft,
                 usedDocIds, nOps>>
  /\ UNCHANGED <<lifecycle, seen>>

\* The queue write completes and the call returns
CallEnqueue ==
  /\ call.pc = "enqueue"
  /\ queue' = enqueue(queue, call.op)
  /\ call' = Settled("ok")
  /\ UNCHANGED <<online, clock, state, store, metaCursor, lastPulledAt, isSyncing,
                 strategy, load, cursorLoad, cyc, callsLeft, changesLeft, usedDocIds,
                 nOps>>
  /\ UNCHANGED <<lifecycle, seen>>

\* The queue write rejects: SyncQueue.enqueue rethrows, the call rejects
CallEnqueueFails ==
  /\ call.pc = "enqueue"
  /\ call' = Settled("storageError")
  /\ UNCHANGED <<online, clock, state, store, queue, metaCursor, lastPulledAt,
                 isSyncing, strategy, load, cursorLoad, cyc, callsLeft, changesLeft,
                 usedDocIds, nOps>>
  /\ UNCHANGED <<lifecycle, seen>>

\* ------------------------------------------------------------- initial load
\* Collection.loadInitialData: getAll resolves, setCollectionState(data)
LoadInitialData ==
  /\ load = "pending"
  /\ DoSetCollectionState({store[d] : d \in DOMAIN store})
  /\ load' = "done"
  /\ UNCHANGED <<online, clock, store, queue, metaCursor, lastPulledAt, isSyncing,
                 strategy, cursorLoad, call, cyc, callsLeft, changesLeft, usedDocIds,
                 nOps>>
  /\ UNCHANGED lifecycle

\* A load without the catch block: the rejection ends it, the state is left
\* as it is
LoadInitialDataRethrows ==
  /\ load = "pending"
  /\ load' = "done"
  /\ UNCHANGED <<online, clock, state, store, queue, metaCursor, lastPulledAt,
                 isSyncing, strategy, cursorLoad, call, cyc, callsLeft, changesLeft,
                 usedDocIds, nOps>>
  /\ UNCHANGED <<lifecycle, seen>>

\* getAll rejects: the catch block sets the collection to empty
LoadInitialDataFails ==
  /\ load = "pending"
  /\ DoSetCollectionState({})
  /\ load' = "done"
  /\ UNCHANGED <<online, clock, store, queue, metaCursor, lastPulledAt, isSyncing,
                 strategy, cursorLoad, call, cyc, callsLeft, changesLeft, usedDocIds,
                 nOps>>
  /\ UNCHANGED lifecycle

\* SyncEngine.loadLastPulledAt: persistence.get resolves
LoadLastPulledAt ==
  /\ cursorLoad = "pending"
  /\ lastPulledAt' = IF metaCursor # NoCursor THEN metaCursor ELSE lastPulledAt
  /\ cursorLoad' = "done"
  /\ UNCHANGED <<online, clock, state, store, queue, metaCursor, isSyncing,
                 strategy, load, call, cyc, callsLeft, changesLeft, usedDocIds, nOps>>
  /\ UNCHANGED <<lifecycle, seen>>

\* --------------------------------------------------------------- SyncEngine
IdleCycle == [pc |-> "idle", batch |-> << >>, successful |-> << >>, failed |-> << >>,
              resolution |-> Null, finalDoc |-> Null, since |-> NoCursor,
              remaining |-> 0, timestamp |-> NoCursor, change |-> Null,
              saving |-> NoCursor, pushError |-> FALSE]

Active == {c \in Slots : cyc[c].pc # "idle"}

\* A guard that tests the connection only
TriggerGuardNoFlag(connected) == ~connected

\* A guard that tests the flag only
TriggerGuardFlagOnly(connected) == isSyncing

\* The early return of triggerSync; connected: network.isConnected()
TriggerGuard(connected) == isSyncing \/ ~connected

\* triggerSync up to its first await: the guard, isSyncing = true, and
\* pushChanges' syncQueue.getAll issued.  Has no effect when the guard returns.
StartCycle(connected) ==
  IF TriggerGuard(connected)
  THEN UNCHANGED <<isSyncing, cyc>>
  ELSE \E c \in Slots :
         /\ cyc[c].pc = "idle"
         /\ \A b \in Slots : cyc[b].pc = "idle" => c <= b
         /\ isSyncing' = TRUE
         /\ cyc' = [cyc EXCEPT ![c] = [IdleCycle EXCEPT !.pc = "drain"]]

\* An explicit triggerSync() by the application
TriggerSync ==
  /\ StartCycle(online)
  /\ UNCHANGED <<online, clock, state, store, queue, metaCursor, lastPulledAt,
                 strategy, load, cursorLoad, call, callsLeft, changesLeft, usedDocIds,
                 nOps>>
  /\ UNCHANGED <<lifecycle, seen>>

\* The same call, noted with what network.isConnected() returned to it
TriggerSyncCall ==
  /\ StartCycle(online)
  /\ lastCall' = [name |-> "triggerSync", docId |-> "none", connected |-> online]
  /\ UNCHANGED <<online, clock, state, store, queue, metaCursor, lastPulledAt,
                 strategy, load, cursorLoad, call, callsLeft, changesLeft, usedDocIds,
                 nOps>>
  /\ UNCHANGED <<listeners, unsubscribeNetwork, stopped, startsLeft, subscriptions,
                 unsubscribed, keptLog, seen>>

\* NetworkDetector.updateStatus(true): the engine's listener calls triggerSync
GoOnline ==
  /\ ~online
  /\ online' = TRUE
  /\ IF listeners # {} THEN StartCycle(TRUE) ELSE UNCHANGED <<isSyncing, cyc>>
  /\ UNCHANGED <<clock, state, store, queue, metaCursor, lastPulledAt,
                 strategy, load, cursorLoad, call, callsLeft, changesLeft, usedDocIds,
                 nOps>>
  /\ UNCHANGED <<lifecycle, seen>>

\* SyncEngine.start(): a new listener is subscribed and called at once with
\* isOnline, unsubscribeNetwork is replaced, loadLastPulledAt is issued
Start ==
  /\ startsLeft > 0
  /\ LET listener == CHOOSE n \in 1..(Cardinality(listeners) + 1) : n \notin listeners IN
       /\ listeners' = listeners \cup {listener}
       /\ unsubscribeNetwork' = listener
  /\ stopped' = FALSE
  /\ startsLeft' = startsLeft - 1
  /\ StartCycle(online)
  /\ cursorLoad' = "pending"
  /\ UNCHANGED <<online, clock, state, store, queue, metaCursor, lastPulledAt,
                 strategy, load, call, callsLeft, changesLeft, usedDocIds, nOps,
                 subscriptions, seen, unsubscribed, lastCall, keptLog>>

\* SyncEngine.stop(): unsubscribeNetwork() removes the listener of the latest
\* start()
Stop ==
  /\ ~stopped
  /\ listeners' = listeners \ {unsubscribeNetwork}
  /\ stopped' = TRUE
  /\ UNCHANGED <<online, clock, state, store, queue, metaCursor, lastPulledAt,
                 isSyncing, strategy, load, cursorLoad, call, cyc, callsLeft,
                 changesLeft, usedDocIds, nOps, unsubscribeNetwork, startsLeft,
                 subscriptions, seen, unsubscribed, lastCall, keptLog>>

\* NetworkDetector.updateStatus(false)
GoOffline ==
  /\ online
  /\ online' = FALSE
  /\ UNCHANGED <<clock, state, store, queue, metaCursor, lastPulledAt, isSyncing,
                 strategy, load, cursorLoad, call, cyc, callsLeft, changesLeft, usedDocIds,
                 nOps>>
  /\ UNCHANGED <<lifecycle, seen>>

\* pushChanges has returned (or its catch block ran): pullChanges calls
\* api.pull(this.lastPulledAt)
StartPull(rec, cursor) ==
  [IdleCycle EXCEPT !.pc = "pull", !.since = cursor, !.pushError = rec.pushError]

\* pushChanges' catch block: console.error, then pullChanges
CatchPush(rec, cursor) == StartPull([rec EXCEPT !.pushError = TRUE], cursor)

\* A loop over `failed` that leaves the last item out
NextFailureButLast(rec, cursor) ==
  IF Len(rec.failed) <= 1 THEN StartPull(rec, cursor)
  ELSE [rec EXCEPT !.pc = "getFailed"]

\* The loop over `failed`: handleFailedOperation's syncQueue.get issued for the
\* next item, or the push phase is over
NextFailure(rec, cursor) ==
  IF rec.failed = << >> THEN StartPull(rec, cursor)
  ELSE [rec EXCEPT !.pc = "getFailed"]

\* A loop over `successful` that dequeues nothing
NextSuccessSkipped(rec, cursor) == NextFailure(rec, cursor)

\* The loop over `successful`: syncQueue.dequeue issued for the next id
NextSuccess(rec, cursor) ==
  IF rec.successful = << >> THEN NextFailure(rec, cursor)
  ELSE [rec EXCEPT !.pc = "ack"]

\* A finally block that leaves the flag as it is
FinishKeepsFlag(c) ==
  /\ cyc' = [cyc EXCEPT ![c] = IdleCycle]
  /\ UNCHANGED isSyncing

\* The finally block of triggerSync
Finish(c) ==
  /\ cyc' = [cyc EXCEPT ![c] = IdleCycle]
  /\ isSyncing' = FALSE

RECURSIVE IdsIn(_, _)
IdsIn(ops, S) ==
  IF ops = << >> THEN << >>
  ELSE (IF Head(ops).id \in S THEN <<Head(ops).id>> ELSE << >>) \o IdsIn(Tail(ops), S)

BatchIds(rec) == {rec.batch[i].id : i \in 1..Len(rec.batch)}

\* syncQueue.getAll resolves with the sorted queue: api.push(operations) is
\* issued, or with an empty queue the cycle goes on to pull
Drain(c) ==
  /\ cyc[c].pc = "drain"
  /\ \E scan \in PersistGetAll(queue) :
       LET operations == QueueGetAll(scan) IN
         cyc' = [cyc EXCEPT ![c] =
                   IF Len(operations) = 0 THEN StartPull(cyc[c], lastPulledAt)
                   ELSE [cyc[c] EXCEPT !.pc = "push", !.batch = operations]]
  /\ UNCHANGED <<online, clock, state, store, queue, metaCursor, lastPulledAt,
                 isSyncing, strategy, load, cursorLoad, call, callsLeft, changesLeft,
                 usedDocIds, nOps>>
  /\ UNCHANGED <<lifecycle, seen>>

\* syncQueue.getAll rejects, outside pushChanges' try: the cycle ends in
\* triggerSync's catch without pulling
DrainFails(c) ==
  /\ cyc[c].pc = "drain"
  /\ Finish(c)
  /\ UNCHANGED <<online, clock, state, store, queue, metaCursor, lastPulledAt,
                 strategy, load, cursorLoad, call, callsLeft, changesLeft, usedDocIds,
                 nOps>>
  /\ UNCHANGED <<lifecycle, seen>>

\* api.push resolves with {successful, failed} (here: disjoint sets of ids of
\* the batch, each listed in batch order)
PushResolvesWith(c, S, F) ==
  /\ cyc[c].pc = "push"
  /\ cyc' = [cyc EXCEPT ![c] =
               NextSuccess([cyc[c] EXCEPT !.successful = IdsIn(cyc[c].batch, S),
                                         !.failed = IdsIn(cyc[c].batch, F)],
                           lastPulledAt)]
  /\ UNCHANGED <<online, clock, state, store, queue, metaCursor, lastPulledAt,
                 isSyncing, strategy, load, cursorLoad, call, callsLeft, changesLeft,
                 usedDocIds, nOps>>
  /\ UNCHANGED <<lifecycle, seen>>

PushResolves(c) ==
  \E S \in SUBSET BatchIds(cyc[c]) :
    \E F \in SUBSET (BatchIds(cyc[c]) \ S) : PushResolvesWith(c, S, F)

\* An id no operation of the queue has
UnknownId == MaxQueue + 1

\* api.push resolves with lists the server is free to fill: an id may be in
\* both, and `failed` may name an id that was never queued
PushResolvesListing(c) ==
  /\ cyc[c].pc = "push"
  /\ \E S \in SUBSET BatchIds(cyc[c]), F \in SUBSET (BatchIds(cyc[c]) \cup {UnknownId}) :
       cyc' = [cyc EXCEPT ![c] =
                 NextSuccess([cyc[c] EXCEPT
                                !.successful = IdsIn(cyc[c].batch, S),
                                !.failed = IdsIn(cyc[c].batch, F)
                                             \o (IF UnknownId \in F THEN <<UnknownId>>
                                                 ELSE << >>)],
                             lastPulledAt)]
  /\ UNCHANGED <<online, clock, state, store, queue, metaCursor, lastPulledAt,
                 isSyncing, strategy, load, cursorLoad, call, callsLeft, changesLeft,
                 usedDocIds, nOps>>
  /\ UNCHANGED <<lifecycle, seen>>

\* api.push resolves and reports every id of the batch as successful
PushResolvesAll(c) == PushResolvesWith(c, BatchIds(cyc[c]), {})

\* api.push rejects: pushChanges' catch logs it, pullChanges follows
PushRejects(c) ==
  /\ cyc[c].pc = "push"
  /\ cyc' = [cyc EXCEPT ![c] = CatchPush(cyc[c], lastPulledAt)]
  /\ UNCHANGED <<online, clock, state, store, queue, metaCursor, lastPulledAt,
                 isSyncing, strategy, load, cursorLoad, call, callsLeft, changesLeft,
                 usedDocIds, nOps>>
  /\ UNCHANGED <<lifecycle, seen>>

\* syncQueue.dequeue(opId) of a successful id completes
Ack(c) ==
  /\ cyc[c].pc = "ack"
  /\ queue' = dequeue(queue, Head(cyc[c].successful))
  /\ cyc' = [cyc EXCEPT ![c] =
               NextSuccess([cyc[c] EXCEPT !.successful = Tail(@)], lastPulledAt)]
  /\ UNCHANGED <<online, clock, state, store, metaCursor, lastPulledAt,
                 isSyncing, strategy, load, cursorLoad, call, callsLeft, changesLeft,
                 usedDocIds, nOps>>
  /\ UNCHANGED <<lifecycle, seen>>

\* A catch block that drops the failed operation at hand from the queue
PushPhaseFailsDropping(c) ==
  /\ cyc[c].pc \in {"ack", "getFailed", "setResolved", "deqResolved"}
  /\ cyc' = [cyc EXCEPT ![c] = CatchPush(cyc[c], lastPulledAt)]
  /\ queue' = IF cyc[c].failed = << >> THEN queue
              ELSE dequeue(queue, Head(cyc[c].failed))
  /\ UNCHANGED <<online, clock, state, store, metaCursor, lastPulledAt,
                 isSyncing, strategy, load, cursorLoad, call, callsLeft, changesLeft,
                 usedDocIds, nOps>>
  /\ UNCHANGED <<lifecycle, seen>>

\* A storage call of the push phase rejects inside pushChanges' try (dequeue,
\* syncQueue.get, persistence.set), or the conflict strategy or a subscriber
\* called by updateDoc throws there: the catch logs it, pullChanges follows
PushPhaseFails(c) ==
  /\ cyc[c].pc \in {"ack", "getFailed", "setResolved", "deqResolved"}
  /\ cyc' = [cyc EXCEPT ![c] = CatchPush(cyc[c], lastPulledAt)]
  /\ UNCHANGED <<online, clock, state, store, queue, metaCursor, lastPulledAt,
                 isSyncing, strategy, load, cursorLoad, call, callsLeft, changesLeft,
                 usedDocIds, nOps>>
  /\ UNCHANGED <<lifecycle, seen>>

\* Nothing logged yet
NoLog == <<0, "none">>

\* What the error of a failed item may carry as remoteState for a local
\* operation: nothing (Null), the server's document of that id, or a document
\* of another id
RemoteStates(localOperation) ==
  {Null, FullDoc(localOperation.docId, "R"),
   FullDoc(CHOOSE d \in DocIds : d # localOperation.docId, "R")}

\* A check that takes any remote document, whatever its id
UsableAnyId(remoteState, localOperation) == remoteState # Null

\* !remoteState || remoteState.id !== localOperation.docId, negated
Usable(remoteState, localOperation) ==
  remoteState # Null /\ remoteState.id = localOperation.docId

\* A handleFailedOperation that has no early return for 'local' and goes on
\* with the remote document
FinalDocNoReturn(resolution, remoteState) ==
  CASE resolution = ResRemote -> remoteState
    [] resolution = ResLocal -> remoteState
    [] OTHER -> resolution.doc

\* A handleFailedOperation that for 'local' writes back the document's id alone
\* and goes on to dequeue
FinalDocLocalStub(resolution, remoteState) ==
  CASE resolution = ResRemote -> remoteState
    [] resolution = ResLocal -> [id |-> remoteState.id]
    [] OTHER -> resolution.doc

\* The document handleFailedOperation applies for a resolution; Null when it
\* returns early and keeps the operation queued ('local')
FinalDoc(resolution, remoteState) ==
  CASE resolution = ResRemote -> remoteState
    [] resolution = ResLocal -> Null
    [] OTHER -> resolution.doc

\* handleFailedOperation past `if (!localOperation) return`, to its next
\* await or return; the resolved document goes to the state with updateDoc
HandleQueued(c, remoteState) ==
  LET operationId == Head(cyc[c].failed)
      rest == [cyc[c] EXCEPT !.failed = Tail(@)]
  IN
  IF ~Usable(remoteState, queue[operationId])
  THEN /\ cyc' = [cyc EXCEPT ![c] = NextFailure(rest, lastPulledAt)]
       /\ keptLog' = <<operationId, "noRemoteState">>
       /\ UNCHANGED <<state, seen>>
  ELSE LET resolution == conflictStrategy(strategy, queue[operationId], remoteState)
           finalDoc == FinalDoc(resolution, remoteState) IN
       IF finalDoc = Null
       THEN /\ cyc' = [cyc EXCEPT ![c] = NextFailure(rest, lastPulledAt)]
            /\ keptLog' = <<operationId, "local">>
            /\ UNCHANGED <<state, seen>>
       ELSE /\ UNCHANGED keptLog
            /\ DoUpdateDoc(finalDoc.id, finalDoc)
            /\ cyc' = [cyc EXCEPT ![c] = [cyc[c] EXCEPT !.pc = "setResolved",
                                                        !.resolution = resolution,
                                                        !.finalDoc = finalDoc]]

\* A handleFailedOperation without the return for an operation that is not
\* queued: reading localOperation.docId throws, into pushChanges' catch
HandleFailedNoGuard(c, remoteState) ==
  IF ~Has(queue, Head(cyc[c].failed))
  THEN /\ cyc' = [cyc EXCEPT ![c] = CatchPush(cyc[c], lastPulledAt)]
       /\ lastCall' = [name |-> "skipFailed", docId |-> "none",
                       operationId |-> Head(cyc[c].failed)]
       /\ UNCHANGED <<state, seen, keptLog>>
  ELSE HandleQueued(c, remoteState) /\ UNCHANGED lastCall

\* handleFailedOperation from syncQueue.get's result to its next await or
\* return.  An item whose operation is not queued is skipped, which is noted
\* as the last call.
HandleFailed(c, remoteState) ==
  IF ~Has(queue, Head(cyc[c].failed))
  THEN /\ cyc' = [cyc EXCEPT ![c] =
                    NextFailure([cyc[c] EXCEPT !.failed = Tail(@)], lastPulledAt)]
       /\ lastCall' = [name |-> "skipFailed", docId |-> "none",
                       operationId |-> Head(cyc[c].failed)]
       /\ UNCHANGED <<state, seen, keptLog>>
  ELSE HandleQueued(c, remoteState) /\ UNCHANGED lastCall

\* syncQueue.get(operationId) resolves for the next failed item
GetFailed(c) ==
  /\ cyc[c].pc = "getFailed"
  /\ LET operationId == Head(cyc[c].failed) IN
       \E remoteState \in (IF Has(queue, operationId)
                           THEN RemoteStates(queue[operationId]) ELSE {Null}) :
         HandleFailed(c, remoteState)
  /\ UNCHANGED <<online, clock, store, queue, metaCursor, lastPulledAt,
                 isSyncing, strategy, load, cursorLoad, call, callsLeft, changesLeft,
                 usedDocIds, nOps>>
  /\ UNCHANGED <<listeners, unsubscribeNetwork, stopped, startsLeft, subscriptions,
                 unsubscribed>>

\* persistence.set(collection, finalDoc) completes; dequeue is issued
SetResolved(c) ==
  /\ cyc[c].pc = "setResolved"
  /\ store' = PersistSet(store, cyc[c].finalDoc)
  /\ cyc' = [cyc EXCEPT ![c] = [cyc[c] EXCEPT !.pc = "deqResolved"]]
  /\ UNCHANGED <<online, clock, state, queue, metaCursor, lastPulledAt,
                 isSyncing, strategy, load, cursorLoad, call, callsLeft, changesLeft,
                 usedDocIds, nOps>>
  /\ UNCHANGED <<lifecycle, seen>>

\* syncQueue.dequeue(operationId) of the resolved operation completes
DeqResolved(c) ==
  /\ cyc[c].pc = "deqResolved"
  /\ queue' = dequeue(queue, Head(cyc[c].failed))
  /\ cyc' = [cyc EXCEPT ![c] =
               NextFailure([cyc[c] EXCEPT !.failed = Tail(@), !.resolution = Null,
                                        !.finalDoc = Null],
                           lastPulledAt)]
  /\ UNCHANGED <<online, clock, state, store, metaCursor, lastPulledAt,
                 isSyncing, strategy, load, cursorLoad, call, callsLeft, changesLeft,
                 usedDocIds, nOps>>
  /\ UNCHANGED <<lifecycle, seen>>

\* ----------------------------------------------------------------- pull phase
\* The changes a pull response may carry: operations of the server on documents
\* it knows; an update's payload is a delta (with the id), a create's the document
RemoteChanges ==
  LET known == {"d1"} \cup usedDocIds IN
    {[type |-> "create", docId |-> d, payload |-> FullDoc(d, "R")] : d \in known}
    \cup {[type |-> "update", docId |-> d, payload |-> [id |-> d, title |-> "R"]] :
            d \in known}
    \cup {[type |-> "delete", docId |-> d, payload |-> Null] : d \in known}

\* The switch of pullChanges, on the state
ApplyToState(s, op) ==
  IF op.type = "delete" THEN deleteDoc(s, op.docId)
  ELSE updateDoc(s, op.docId, op.payload)

DoApplyToState(op) ==
  IF op.type = "delete" THEN DoDeleteDoc(op.docId)
  ELSE DoUpdateDoc(op.docId, op.payload)

\* The switch of pullChanges, on the collection's store
ApplyToStore(st, op) ==
  IF op.type = "delete" THEN PersistDelete(st, op.docId)
  ELSE PersistSet(st, op.payload)

\* api.pull resolves with {changes, timestamp}, n changes: with none
\* pullChanges returns; otherwise the first change goes to the state and its
\* storage write is issued.  (The content of each change is drawn when the loop
\* reaches it.)
PullResolvesWith(c, n, timestamp) ==
  /\ cyc[c].pc = "pull"
  /\ IF n = 0
     THEN /\ Finish(c)
          /\ UNCHANGED <<state, seen, changesLeft>>
     ELSE \E op \in RemoteChanges :
            /\ DoApplyToState(op)
            /\ cyc' = [cyc EXCEPT ![c] = [cyc[c] EXCEPT !.pc = "apply", !.remaining = n,
                                                        !.timestamp = timestamp,
                                                        !.change = op]]
            /\ changesLeft' = changesLeft - n
            /\ UNCHANGED isSyncing
  /\ UNCHANGED <<online, clock, store, queue, metaCursor, lastPulledAt,
                 strategy, load, cursorLoad, call, callsLeft, usedDocIds, nOps>>
  /\ UNCHANGED lifecycle

PullResolves(c) ==
  \E n \in 0..changesLeft, timestamp \in ServerTimes : PullResolvesWith(c, n, timestamp)

\* A catch block that persists the returned timestamp all the same
PullPhaseFailsSaving(c) ==
  /\ cyc[c].pc \in {"pull", "apply", "saveCursor"}
  /\ Finish(c)
  /\ metaCursor' = IF cyc[c].pc = "apply" THEN cyc[c].timestamp ELSE metaCursor
  /\ UNCHANGED <<online, clock, state, store, queue, lastPulledAt,
                 strategy, load, cursorLoad, call, callsLeft, changesLeft, usedDocIds,
                 nOps>>
  /\ UNCHANGED <<lifecycle, seen>>

\* api.pull rejects, or a storage write of the pull phase rejects: pullChanges'
\* catch logs it and the cycle ends
PullPhaseFails(c) ==
  /\ cyc[c].pc \in {"pull", "apply", "saveCursor"}
  /\ Finish(c)
  /\ UNCHANGED <<online, clock, state, store, queue, metaCursor, lastPulledAt,
                 strategy, load, cursorLoad, call, callsLeft, changesLeft, usedDocIds,
                 nOps>>
  /\ UNCHANGED <<lifecycle, seen>>

\* A cursor that keeps the value the pull was called with
NewCursorStale(rec) == rec.since

\* this.lastPulledAt = timestamp, after the loop over the changes
NewCursor(rec) == rec.timestamp

\* The storage write of the current change completes: the next change goes to
\* the state, or after the last one lastPulledAt = timestamp and
\* saveLastPulledAt's persistence.set is issued
Apply(c) ==
  /\ cyc[c].pc = "apply"
  /\ store' = ApplyToStore(store, cyc[c].change)
  /\ IF cyc[c].remaining > 1
     THEN \E op \in RemoteChanges :
            /\ DoApplyToState(op)
            /\ cyc' = [cyc EXCEPT ![c] = [cyc[c] EXCEPT !.remaining = @ - 1, !.change = op]]
            /\ UNCHANGED lastPulledAt
     ELSE /\ lastPulledAt' = NewCursor(cyc[c])
          /\ cyc' = [cyc EXCEPT ![c] = [cyc[c] EXCEPT !.pc = "saveCursor", !.remaining = 0,
                                                      !.change = Null,
                                                      !.saving = NewCursor(cyc[c])]]
          /\ UNCHANGED <<state, seen>>
  /\ UNCHANGED <<online, clock, queue, metaCursor, isSyncing, strategy, load,
                 cursorLoad, call, callsLeft, changesLeft, usedDocIds, nOps>>
  /\ UNCHANGED lifecycle

\* saveLastPulledAt's persistence.set of {id, value: this.lastPulledAt} (the
\* value read when it was called) completes; the cycle ends
SaveLastPulledAt(c) ==
  /\ cyc[c].pc = "saveCursor"
  /\ metaCursor' = cyc[c].saving
  /\ Finish(c)
  /\ UNCHANGED <<online, clock, state, store, queue, lastPulledAt, strategy, load,
                 cursorLoad, call, callsLeft, changesLeft, usedDocIds, nOps>>
  /\ UNCHANGED <<lifecycle, seen>>

\* ------------------------------------------------------------ specification
\* After the client and the collection are constructed: the engine has started
\* (its listener was called with the current network state, so a cycle is in
\* flight when online), the cursor load and the initial load are pending.  The
\* store holds one document of an earlier session; calls and changes are what
\* the application and the server will do.
InitWith(calls, changes, queues, starts) ==
  /\ online \in BOOLEAN
  /\ clock = 0
  /\ state = EmptyMap
  /\ store = [d \in {"d1"} |-> FullDoc("d1", "A")]
  /\ queue \in queues
  /\ metaCursor \in {NoCursor, 2}
  /\ lastPulledAt = NoCursor
  /\ isSyncing = online
  /\ strategy \in Strategies
  /\ load = "pending"
  /\ cursorLoad = "pending"
  /\ call = IdleCall
  /\ cyc = [c \in Slots |-> IF c = 1 /\ online
                            THEN [IdleCycle EXCEPT !.pc = "drain"] ELSE IdleCycle]
  /\ callsLeft = calls
  /\ changesLeft = changes
  /\ usedDocIds = {}
  /\ nOps = Cardinality(DOMAIN queue)
  /\ listeners = {1}
  /\ unsubscribeNetwork = 1
  /\ stopped = FALSE
  /\ startsLeft = starts
  /\ subscriptions = {}
  /\ unsubscribed = {}
  /\ keptLog = NoLog
  /\ lastCall = NoStateCall
  /\ seen = Silent

\* Queues an earlier session left in the sync-queue store: up to MaxQueue
\* operations, each with any timestamp of 1..MaxQueue
StoredQueues ==
  UNION { { [i \in 1..k |-> Operation(i, "update", "d1", [title |-> "B"], ts[i])] :
              ts \in [1..k -> 1..MaxQueue] } : k \in 0..MaxQueue }

Facade ==
  \/ CallAdd \/ CallUpdate \/ CallDelete
  \/ CallPersist \/ CallPersistFails \/ CallEnqueue \/ CallEnqueueFails

\* The facade when no storage call rejects
FacadeReliable ==
  \/ CallAdd \/ CallUpdate \/ CallDelete \/ CallPersist \/ CallEnqueue

Background ==
  \/ LoadInitialData \/ LoadInitialDataFails \/ LoadLastPulledAt
  \/ TriggerSync \/ GoOnline \/ GoOffline

BackgroundReliable ==
  \/ LoadInitialData \/ LoadLastPulledAt \/ TriggerSync \/ GoOnline \/ GoOffline

PushPhase(c) ==
  \/ PushResolves(c) \/ PushRejects(c) \/ Ack(c) \/ PushPhaseFails(c)
  \/ GetFailed(c) \/ SetResolved(c) \/ DeqResolved(c)

PushPhaseReliable(c) ==
  \/ PushResolves(c) \/ Ack(c) \/ GetFailed(c) \/ SetResolved(c) \/ DeqResolved(c)

PullPhase(c) ==
  \/ PullResolves(c) \/ PullPhaseFails(c) \/ Apply(c) \/ SaveLastPulledAt(c)

PullPhaseReliable(c) ==
  \/ PullResolves(c) \/ Apply(c) \/ SaveLastPulledAt(c)

\* The whole client: facade calls, cycles, remote changes, rejections
Init == InitWith(MaxCalls, MaxChanges, {EmptyMap}, 0)

Next ==
  \/ Facade
  \/ Background
  \/ \E c \in Slots : Drain(c) \/ DrainFails(c) \/ PushPhase(c) \/ PullPhase(c)

Spec == Init /\ [][Next]_vars

\* The whole client when no storage call and no network call rejects
NextReliable ==
  \/ FacadeReliable
  \/ BackgroundReliable
  \/ \E c \in Slots : Drain(c) \/ PushPhaseReliable(c) \/ PullPhaseReliable(c)

SpecReliable == Init /\ [][NextReliable]_vars

\* The server has nothing to deliver: the facade against the push phase
InitQueue == InitWith(QueueCalls, 0, {EmptyMap}, 0)

NextQueue ==
  \/ Facade
  \/ Background
  \/ \E c \in Slots :
       \/ Drain(c) \/ DrainFails(c)
       \/ PushPhase(c)
       \/ PullResolves(c) \/ PullPhaseFails(c)

SpecQueue == InitQueue /\ [][NextQueue]_vars

\* The same with ReplayCalls facade calls
InitReplay == InitWith(ReplayCalls, 0, {EmptyMap}, 0)

SpecReplay == InitReplay /\ [][NextQueue]_vars

\* The application makes no facade call: the cycles against the server's changes
InitPull == InitWith(0, PullChanges, {EmptyMap}, 0)

NextPull ==
  \/ Background
  \/ \E c \in Slots : Drain(c) \/ DrainFails(c) \/ PullPhase(c)

SpecPull == InitPull /\ [][NextPull]_vars

\* The same when no storage call and no network call rejects
NextReliablePull ==
  \/ BackgroundReliable
  \/ \E c \in Slots : Drain(c) \/ PullPhaseReliable(c)

SpecReliablePull == InitPull /\ [][NextReliablePull]_vars

\* The engine's start() and stop() against the connectivity signal and
\* explicit triggers; the queue is empty and the server has nothing to deliver
InitLifecycle == InitWith(0, 0, {EmptyMap}, MaxStarts)

NextLifecycle ==
  \/ Start \/ Stop
  \/ BackgroundReliable
  \/ \E c \in Slots : Drain(c) \/ PullResolves(c)

SpecLifecycle == InitLifecycle /\ [][NextLifecycle]_vars

\* Cycles over a stored queue when the server accepts every operation pushed
\* and the application makes no facade call; storage and network may reject
InitDrain == InitWith(0, 0, StoredQueues, 0)

NextDrain ==
  \/ BackgroundReliable
  \/ \E c \in Slots :
       \/ Drain(c) \/ DrainFails(c)
       \/ PushResolvesAll(c) \/ Ack(c) \/ PushPhaseFails(c)
       \/ PullResolves(c) \/ PullPhaseFails(c)

SpecDrain == InitDrain /\ [][NextDrain]_vars

\* The facade alone: the application's calls, one after the other, against the
\* initial load, a storage that may reject, and one callback it subscribes and
\* unsubscribes; no sync cycle runs
InitFacade == InitWith(FacadeCalls, 0, {EmptyMap}, 0)

NextFacade ==
  \/ Facade
  \/ LoadInitialData \/ LoadInitialDataFails
  \/ Subscribe("cb1") \/ Unsubscribe("cb1")

SpecFacade == InitFacade /\ [][NextFacade]_vars

\* The StateManager alone, called by the application: mutating calls,
\* subscriptions and unsubscriptions in any order
InitState == InitWith(0, 0, {EmptyMap}, 0)

NextState ==
  \/ \E data \in DocLists : SetCollectionStateCall(data)
  \/ \E doc \in Docs : AddDocCall(doc)
  \/ \E d \in DocIds : UpdateDocCall(d, [title |-> "B"]) \/ DeleteDocCall(d)
  \/ \E cb \in Callbacks : Subscribe(cb) \/ Unsubscribe(cb)

SpecState == InitState /\ [][NextState]_vars

\* Cycles over a stored queue (operations enqueued one after the other) whose
\* operations the server may accept or fail, with or without a usable remote
\* state, and whose push it may reject; storage does not reject and the
\* application makes no facade call
RetryQueues ==
  { [i \in 1..k |-> Operation(i, "update", "d1", [title |-> "B"], i)] : k \in 0..MaxQueue }

InitRetry == InitWith(0, 0, RetryQueues, 0)

NextRetry ==
  \/ BackgroundReliable
  \/ \E c \in Slots :
       \/ Drain(c) \/ PushPhaseReliable(c) \/ PushRejects(c) \/ PullResolves(c)

SpecRetry == InitRetry /\ [][NextRetry]_vars

\* Cycles over a stored queue and the server's changes, the application and
\* the connectivity signal triggering more of them, when every call of a cycle
\* may resolve or reject and each pending call eventually does one or the
\* other.  (The initial load and the cursor load, which touch neither a cycle's
\* position nor the flag, stay pending.)
LiveQueues ==
  { [i \in 1..k |-> Operation(i, "update", "d1", [title |-> "B"], i)] : k \in 0..LiveQueue }

InitLive == InitWith(0, LiveChanges, LiveQueues, 0)

\* The completion, either way, of the call a cycle is waiting for
CycleStep(c) == Drain(c) \/ DrainFails(c) \/ PushPhase(c) \/ PullPhase(c)

NextLive ==
  \/ TriggerSync \/ GoOnline \/ GoOffline
  \/ \E c \in Slots : CycleStep(c)

SpecLive == InitLive /\ [][NextLive]_vars /\ \A c \in Slots : WF_vars(CycleStep(c))

\* Cycles over a stored queue of one operation of any type, an update with and
\* without a payload included; the server may accept it or fail it, storage
\* does not reject
MergeQueues ==
  { [i \in {1} |-> op] :
      op \in {Operation(1, "create", "d1", [id |-> "d1", title |-> "B"], 1),
              Operation(1, "delete", "d1", Null, 1),
              Operation(1, "update", "d1", Null, 1),
              Operation(1, "update", "d1", [title |-> "B"], 1)} }

InitMerge == InitWith(0, 0, MergeQueues, 0)

SpecMerge == InitMerge /\ [][NextRetry]_vars

\* Cycles over a stored queue when the push response may list any id as
\* successful, as failed or as both, and an unknown id as failed; a storage
\* call of the push phase may reject
ConflictQueues ==
  { [i \in 1..k |-> Operation(i, "update", "d1", [title |-> "B"], i)] :
      k \in 0..ConflictQueue }

InitConflict == InitWith(0, 0, ConflictQueues, 0)

NextConflict ==
  \/ BackgroundReliable
  \/ \E c \in Slots :
       \/ Drain(c) \/ PushResolvesListing(c) \/ Ack(c) \/ PushPhaseFails(c)
       \/ GetFailed(c) \/ SetResolved(c) \/ DeqResolved(c)
       \/ PullResolves(c)

SpecConflict == InitConflict /\ [][NextConflict]_vars

\* The application calls triggerSync at any moment, connected or not, while
\* the connection comes and goes; the server accepts what is pushed and
\* nothing rejects
InitTrigger == InitWith(0, 0, RetryQueues, 0)

NextTrigger ==
  \/ TriggerSyncCall \/ GoOnline \/ GoOffline \/ LoadLastPulledAt
  \/ \E c \in Slots : Drain(c) \/ PushResolvesAll(c) \/ Ack(c) \/ PullResolves(c)

SpecTrigger == InitTrigger /\ [][NextTrigger]_vars

\* SyncQueue.dequeue on every stored queue, with ids queued and not queued
InitDequeue == InitWith(0, 0, StoredQueues, 0)

NextDequeue == \E id \in 1..(MaxQueue + 1) : Dequeue(id)

SpecDequeue == InitDequeue /\ [][NextDequeue]_vars

\* The conflict strategies alone, on every conflict of the bounded sets
InitResolver == InitWith(0, 0, {EmptyMap}, 0)

NextResolver ==
  \E localOperation \in ConflictOperations, remoteState \in ConflictRemoteStates :
    \/ LastWriteWinsCall(localOperation, remoteState)
    \/ \E now \in 1..MaxTime : FieldLevelMergeCall(localOperation, remoteState, now)

SpecResolver == InitResolver /\ [][NextResolver]_vars

\* SyncQueue.getAll on every stored queue, under every scan order
InitSort == InitWith(0, 0, StoredQueues, 0)

NextSort == \E c \in Slots : Drain(c)

SpecSort == InitSort /\ [][NextSort]_vars

\* ------------------------------------------------------------------- claims

\* C1: at most one sync cycle is in flight at any time; a triggerSync() call or
\* an online transition that arrives while a cycle is in flight starts nothing
\* (no push, no pull) and leaves the operation queue and the cursor unchanged.
SingleFlight ==
  [][ /\ Cardinality(Active') <= 1
      /\ (Active # {} /\ (TriggerSync \/ GoOnline))
           => UNCHANGED <<cyc, isSyncing, queue, metaCursor, lastPulledAt>> ]_vars

\* A cycle waits for its push response while the client is online: a trigger
\* arriving now finds the cycle in flight
SingleFlightWitness ==
  /\ online
  /\ isSyncing
  /\ \E c \in Slots : cyc[c].pc = "push"

\* The step on which the facade call in flight returns to the application: its
\* operation enters the queue (enqueue resolved)
Returns(kind) ==
  /\ call.pc = "enqueue"
  /\ call.kind = kind
  /\ call'.pc = "idle"
  /\ Has(queue', call.op.id)

\* C2: optimistic visibility: in every interleaving with the initial load and
\* with sync cycles, when add(doc) returns getAll() contains a document with the
\* new document's id.
OptimisticVisibility ==
  [][ Returns("create")
        => \E doc \in getCollectionState(state') : doc.id = call.docId ]_vars

\* C3: read-after-delete: in every interleaving with the initial load, conflict
\* application and the pull phase, when delete(id) returns get(id) is absent
\* from the state and durable storage holds no document under that id.
ReadAfterDelete ==
  [][ Returns("delete")
        => ~Has(state', call.docId) /\ ~Has(store', call.docId) ]_vars

\* C4: an operation leaves the queue only on the dequeue of an id listed in
\* the successful set of a push response, or on the dequeue that follows a
\* conflict resolved as remote or as a merged document; every other step,
\* enqueues during a cycle and failed pushes included, keeps it queued.
QueueRetention ==
  [][ \A id \in DOMAIN queue :
        ~Has(queue', id)
          => \E c \in Slots :
               \/ /\ cyc[c].pc = "ack"
                  /\ Head(cyc[c].successful) = id
               \/ /\ cyc[c].pc = "deqResolved"
                  /\ Head(cyc[c].failed) = id
                  /\ cyc[c].resolution # Null
                  /\ cyc[c].resolution # ResLocal ]_vars

\* The one operation built has left the queue and storage holds the server's
\* document: its conflict was resolved and it was dequeued
QueueRetentionWitness ==
  /\ nOps = 1
  /\ queue = EmptyMap
  /\ \E d \in DOMAIN store : store[d].title = "R"

\* No facade call and no cycle in flight, initial load finished
Quiescent == NoCall /\ Active = {} /\ load = "done"

\* C5: state/storage convergence: whenever no facade mutation and no sync
\* cycle is in flight and the initial load has finished, the state and durable
\* storage hold the same document under every id (both absent or both equal).
Convergence == Quiescent => state = store

\* C6: cursor monotonicity: the persisted cursor never decreases, whatever
\* timestamps pull returns.
CursorMonotone == [][ metaCursor' >= metaCursor ]_vars

\* C7: no partial cursor advancement: a cycle whose pull call rejects or whose
\* change application throws ends with the persisted cursor it began with, and
\* the persisted cursor is written only by the save issued after every change
\* of the batch went to state and storage.
NoPartialAdvance ==
  [][ \A c \in Slots :
        /\ (cyc[c].pc \in {"pull", "apply"} /\ cyc'[c].pc = "idle")
             => metaCursor' = metaCursor
        /\ (cyc[c].pc # "idle" /\ metaCursor' # metaCursor)
             => cyc[c].pc = "saveCursor" /\ cyc[c].remaining = 0 ]_vars

\* Changes were delivered, every cycle has ended, and neither the persisted
\* nor the in-memory cursor moved: the application of a batch failed midway
NoPartialAdvanceWitness ==
  /\ changesLeft < PullChanges
  /\ Active = {}
  /\ metaCursor = NoCursor
  /\ lastPulledAt = NoCursor
  /\ state # store

\* The step that ends a pull phase which applied a batch and saved the cursor
SavesCursor(c) == cyc[c].pc = "saveCursor" /\ cyc'[c].pc = "idle"

FifoFidelity ==
  \A c \in Slots :
    cyc[c].pc = "push"
      => LET operations == cyc[c].batch IN
         /\ Len(operations) = Cardinality(DOMAIN queue)
         /\ {operations[i] : i \in 1..Len(operations)} = {queue[k] : k \in DOMAIN queue}
         /\ (\A j, k \in DOMAIN queue : j # k => queue[j].timestamp # queue[k].timestamp)
              => \A i \in 1..(Len(operations) - 1) :
                   operations[i].timestamp < operations[i + 1].timestamp

\* A full queue with pairwise distinct timestamps that do not follow the ids
\* was drained
FifoFidelityWitness ==
  /\ Cardinality(DOMAIN queue) = MaxQueue
  /\ \A j, k \in DOMAIN queue : j # k => queue[j].timestamp # queue[k].timestamp
  /\ queue[1].timestamp > queue[2].timestamp
  /\ \E c \in Slots : cyc[c].pc = "push" /\ cyc[c].batch[1] # queue[1]

\* C10: call-order replay: the drain lists the operations of facade calls in
\* the order of the calls (operation ids number the calls), equal clock
\* timestamps included.
CallOrderReplay ==
  \A c \in Slots :
    cyc[c].pc = "push"
      => \A i \in 1..(Len(cyc[c].batch) - 1) : cyc[c].batch[i].id < cyc[c].batch[i + 1].id

\* C11: after stop(), once any in-flight cycle has completed, an explicit
\* triggerSync() is ignored: it starts no push and no pull and changes neither
\* queue, state, storage nor cursor.
StoppedIgnoresTrigger ==
  [][ (stopped /\ Active = {} /\ TriggerSync)
        => UNCHANGED <<cyc, isSyncing, queue, state, store, metaCursor>> ]_vars

\* C12: after stop(), no transition of the connectivity signal to online
\* starts a sync cycle, whatever start() and stop() calls came before.
StoppedIgnoresOnline ==
  [][ (stopped /\ ~online /\ online') => UNCHANGED <<cyc, isSyncing>> ]_vars

\* The step on which a cycle completes
Completes(c) == cyc[c].pc # "idle" /\ cyc'[c].pc = "idle"

Carries(doc, payload) ==
  \A f \in DOMAIN payload : f \in DOMAIN doc /\ doc[f] = payload[f]

\* The step on which the pull loop hands its last change to the state
PatchesLast(c) ==
  /\ cyc'[c].pc = "apply"
  /\ cyc'[c].remaining = 1
  /\ cyc[c] # cyc'[c]

\* The step on which the storage write of the last change completes
StoresLast(c) == cyc[c].pc = "apply" /\ cyc[c].remaining = 1 /\ cyc'[c].pc = "saveCursor"

\* C14: pull application: when the initial load is over and the pull loop has
\* applied its last change, the state and (once its write completes) the
\* storage hold a document under the change's docId carrying the payload's
\* fields for a create (also of an id the state did not hold) or an update
\* (of an id the state held), and no document under it for a delete.
PullApplication ==
  [][ \A c \in Slots :
        /\ (load = "done" /\ PatchesLast(c)) =>
             LET op == cyc'[c].change IN
               CASE op.type = "delete" -> ~Has(state', op.docId)
                 [] op.type = "create" ->
                      Has(state', op.docId) /\ Carries(state'[op.docId], op.payload)
                 [] OTHER ->
                      Has(state, op.docId) =>
                        Has(state', op.docId) /\ Carries(state'[op.docId], op.payload)
        /\ StoresLast(c) =>
             LET op == cyc[c].change IN
               IF op.type = "delete" THEN ~Has(store', op.docId)
               ELSE Has(store', op.docId) /\ Carries(store'[op.docId], op.payload)
    ]_vars

\* C15: update(id, partial) on an id absent from the state fails with the
\* not-found error and leaves state, storage and queue unchanged, and no
\* subscriber is notified.
UpdateNotFound ==
  [][ \A d \in DocIds :
        (CallUpdateOn(d) /\ ~Has(state, d))
          => /\ call' = Settled("notFound")
             /\ UNCHANGED <<state, store, queue>>
             /\ seen' = Silent ]_vars

\* update() has failed with not-found while a callback was subscribed and the
\* state held another document
UpdateNotFoundWitness ==
  /\ call.outcome = "notFound"
  /\ subscriptions # {}
  /\ state # EmptyMap
  /\ seen = Silent

\* The step on which the facade call in flight settles
Settles == call.pc # "idle" /\ call'.pc = "idle"

\* The collection's store holds the call's document write
WriteInStorage(st) ==
  IF call.kind = "delete" THEN ~Has(st, call.docId)
  ELSE Has(st, call.docId) /\ st[call.docId] = call.doc

\* C16: when the storage write of add, update or delete rejects, the call
\* rejects with the storage error and enqueues no operation; when a call
\* returns successfully, its document write is in storage and exactly one new
\* operation, of the call's type and docId, is in the queue; the queue changes
\* on no other step of the facade.
NoPartialMutation ==
  [][ /\ (CallPersistFails \/ CallEnqueueFails) => call'.outcome = "storageError"
      /\ Settles =>
           \/ /\ call'.outcome = "ok"
              /\ WriteInStorage(store')
              /\ \E id \in DOMAIN queue' \ DOMAIN queue :
                   /\ queue' = Put(queue, id, queue'[id])
                   /\ queue'[id].type = call.kind
                   /\ queue'[id].docId = call.docId
           \/ /\ call'.outcome = "storageError"
              /\ queue' = queue
      /\ queue' # queue => call'.outcome = "ok" ]_vars

\* Of two calls, one was rejected after its operation was built and the other
\* has returned successfully with its operation queued
NoPartialMutationWitness ==
  /\ call.outcome = "ok"
  /\ nOps = 2
  /\ Cardinality(DOMAIN queue) = 1

\* C17: payload invariant: every queued operation carries the complete new
\* document, id included, when it is a create, exactly the delta the caller
\* passed when it is an update, and null when it is a delete.
PayloadInvariant ==
  \A id \in DOMAIN queue :
    LET op == queue[id] IN
      CASE op.type = "create" -> op.payload = FullDoc(op.docId, "A")
        [] op.type = "update" -> op.payload = [title |-> "B"]
        [] op.type = "delete" -> op.payload = Null

\* The queue holds an update and an operation of another type
PayloadInvariantWitness ==
  /\ \E id \in DOMAIN queue : queue[id].type = "update"
  /\ \E id \in DOMAIN queue : queue[id].type # "update"

\* Each callback subscribed when the call was made was invoked exactly once,
\* with the list the collection holds after the call, and no other callback
NotifiedOnce ==
  seen' = [cb \in Callbacks |->
             IF cb \in subscriptions THEN <<getCollectionState(state')>> ELSE << >>]

\* C18: every mutating call (setCollectionState, addDoc, updateDoc on a present
\* id, deleteDoc) invokes each subscribed callback exactly once, before it
\* returns, with the collection's contents after the mutation.
SynchronousNotification ==
  [][ \/ \E data \in DocLists : SetCollectionStateCall(data)
      \/ \E doc \in Docs : AddDocCall(doc)
      \/ \E d \in DocIds : Has(state, d) /\ UpdateDocCall(d, [title |-> "B"])
      \/ \E d \in DocIds : DeleteDocCall(d)
      => NotifiedOnce ]_vars

\* C18, amended: the same for setCollectionState, addDoc, and updateDoc and
\* deleteDoc on a present id.
SynchronousNotificationPresent ==
  [][ \/ \E data \in DocLists : SetCollectionStateCall(data)
      \/ \E doc \in Docs : AddDocCall(doc)
      \/ \E d \in DocIds : Has(state, d) /\ UpdateDocCall(d, [title |-> "B"])
      \/ \E d \in DocIds : Has(state, d) /\ DeleteDocCall(d)
      => NotifiedOnce ]_vars

\* deleteDoc has removed a document and both callbacks were passed the list
\* that remains
SynchronousNotificationWitness ==
  /\ lastCall.name = "deleteDoc"
  /\ subscriptions = Callbacks
  /\ state # EmptyMap
  /\ \A cb \in Callbacks : seen[cb] = <<getCollectionState(state)>>

\* C19: updateDoc on an id absent from the collection changes nothing in the
\* state and notifies no subscriber.
PatchAbsentNoOp ==
  [][ \A d \in DocIds :
        (~Has(state, d) /\ UpdateDocCall(d, [title |-> "B"]))
          => state' = state /\ seen' = Silent ]_vars

\* updateDoc was called on an id the collection does not hold while a callback
\* was subscribed and another document was present
PatchAbsentNoOpWitness ==
  /\ lastCall.name = "updateDoc"
  /\ ~Has(state, lastCall.docId)
  /\ state # EmptyMap
  /\ subscriptions # {}

\* A mutating call of the StateManager made by the application
StateCall ==
  \/ \E data \in DocLists : SetCollectionStateCall(data)
  \/ \E doc \in Docs : AddDocCall(doc)
  \/ \E d \in DocIds : UpdateDocCall(d, [title |-> "B"]) \/ DeleteDocCall(d)

\* C20: subscribeToCollection invokes the new callback exactly once with the
\* current snapshot before it returns; once the unsubscribe function it
\* returned has been called, no later mutation invokes that callback.
SubscribeSnapshot ==
  [][ /\ \A cb \in Callbacks :
           Subscribe(cb) => seen'[cb] = <<getCollectionState(state)>>
      /\ StateCall => \A cb \in unsubscribed : seen'[cb] = << >> ]_vars

\* A mutation has notified the callback still subscribed and not the one
\* whose unsubscribe function was called
SubscribeSnapshotWitness ==
  /\ lastCall.name = "addDoc"
  /\ \E cb \in unsubscribed : seen[cb] = << >>
  /\ \E cb \in subscriptions : seen[cb] = <<getCollectionState(state)>>

\* C21: idempotent dequeue: dequeuing an id that is not in the queue leaves
\* the queue unchanged, and dequeuing the same id again after a dequeue yields
\* the same queue as the single dequeue.
IdempotentDequeue ==
  [][ \A id \in 1..(MaxQueue + 1) :
        Dequeue(id) =>
          /\ ~Has(queue, id) => queue' = queue
          /\ ~Has(queue', id)
          /\ dequeue(queue', id) = queue' ]_vars

\* An id that is not queued was dequeued from a queue that holds operations
IdempotentDequeueWitness ==
  /\ lastCall.name = "dequeue"
  /\ ~Has(queue, lastCall.docId)
  /\ Cardinality(DOMAIN queue) = nOps
  /\ nOps > 0

\* C22: lastWriteWins: when the remote timestamp field is present and parses
\* to a time R (R = 0 included), the resolution is local if the operation's
\* timestamp L > R and remote if L <= R; when the field is missing or does not
\* parse, the resolution is remote.
LastWriteWinsRule ==
  lastCall.name = "lastWriteWins" =>
    LET L == lastCall.localOperation.timestamp
        remote == lastCall.remoteState IN
      IF Has(remote, TimestampField) /\ remote[TimestampField].text = "date"
      THEN lastCall.resolution =
             IF L > remote[TimestampField].time THEN ResLocal ELSE ResRemote
      ELSE lastCall.resolution = ResRemote

\* C23: fieldLevelMerge on an update conflict with a payload returns a
\* document in which every field of the local delta has the delta's value,
\* every other field but the timestamp field has the remote document's value,
\* and the timestamp field is the resolution time, whether or not the remote
\* document carried one.
FieldLevelMergeRule ==
  (/\ lastCall.name = "fieldLevelMerge"
   /\ lastCall.localOperation.type = "update"
   /\ lastCall.localOperation.payload # Null) =>
    LET delta == lastCall.localOperation.payload
        remote == lastCall.remoteState
        res == lastCall.resolution IN
      /\ res.kind = "doc"
      /\ \A f \in DOMAIN delta : Has(res.doc, f) /\ res.doc[f] = delta[f]
      /\ \A f \in DOMAIN remote \ (DOMAIN delta \cup {TimestampField}) :
           Has(res.doc, f) /\ res.doc[f] = remote[f]
      /\ Has(res.doc, TimestampField)
      /\ res.doc[TimestampField] = IsoDate(lastCall.now)

\* C24: when persistence.getAll rejects during the initial load, the load ends
\* (nothing propagates out of the constructor, which does not await it) with
\* the collection's state set to empty and the subscribers told so.
LoadFailureStartsEmpty ==
  [][ LoadInitialDataFails =>
        /\ load' = "done"
        /\ state' = EmptyMap
        /\ seen' = [cb \in Callbacks |-> IF cb \in subscriptions THEN <<{}>> ELSE << >>]
    ]_vars

\* The initial load is over and no facade call was made, yet the state is
\* empty while storage holds a document: getAll rejected
LoadFailureStartsEmptyWitness ==
  /\ load = "done"
  /\ callsLeft = FacadeCalls
  /\ state = EmptyMap
  /\ store # EmptyMap
  /\ subscriptions # {}

\* The step on which a cycle issues its pull request
IssuesPull(c) == cyc[c].pc # "pull" /\ cyc'[c].pc = "pull"

\* C25: every pull request passes as since the cursor persisted in storage
\* (none only when none was persisted), the pull of the cycle start() triggers
\* included, and the completion of the cursor load never replaces the
\* in-memory cursor with an older one.
PullSincePersisted ==
  [][ /\ \A c \in Slots : IssuesPull(c) => cyc'[c].since = metaCursor
      /\ (cursorLoad = "pending" /\ cursorLoad' = "done")
           => lastPulledAt' >= lastPulledAt ]_vars

\* The step on which handleFailedOperation applies a resolved document to the
\* state (the resolution was 'remote' or a merged document)
AppliesResolution(c) == cyc[c].pc = "getFailed" /\ cyc'[c].pc = "setResolved"

\* The state and storage hold the same document under the id, or none
AgreeOn(docId) ==
  IF Has(state, docId) THEN Has(store, docId) /\ state[docId] = store[docId]
  ELSE ~Has(store, docId)

\* C26: when a failed operation's conflict resolves as remote or as a merged
\* document after the initial load, with the state and storage in agreement
\* on the document, whatever the operation's type and whether or not the
\* state holds the document, the state's document under that id equals the resolved
\* document once it is applied, storage holds the same document once its write
\* completes, and the operation leaves the queue with the dequeue that follows.
ResolutionApplied ==
  [][ \A c \in Slots :
        /\ (load = "done" /\ AppliesResolution(c)) =>
             LET finalDoc == cyc'[c].finalDoc IN
               AgreeOn(finalDoc.id) =>
                 Has(state', finalDoc.id) /\ state'[finalDoc.id] = finalDoc
        /\ cyc[c].pc = "setResolved" /\ cyc'[c].pc = "deqResolved" =>
             LET finalDoc == cyc[c].finalDoc IN
               Has(store', finalDoc.id) /\ store'[finalDoc.id] = finalDoc
        /\ cyc[c].pc = "deqResolved" /\ cyc'[c].pc # "deqResolved" =>
             ~Has(queue', Head(cyc[c].failed)) ]_vars

\* The step on which handleFailedOperation gets 'local' from the strategy for
\* the failed operation at hand
LocalWinsStep(c) ==
  /\ cyc[c].pc = "getFailed"
  /\ LET operationId == Head(cyc[c].failed) IN
       /\ Has(queue, operationId)
       /\ \E remoteState \in RemoteStates(queue[operationId]) :
            /\ Usable(remoteState, queue[operationId])
            /\ conflictStrategy(strategy, queue[operationId], remoteState) = ResLocal
            /\ HandleFailed(c, remoteState)

\* The step on which a cycle's push batch is read from the queue
ReadsBatch(c) == cyc[c].pc = "drain" /\ cyc'[c].pc = "push"

\* C27: when the resolver returns local for a failed operation, the handling
\* leaves the queue (the operation included), the state and storage unchanged
\* and goes on without the write and the dequeue; the operation, while queued,
\* is in the push batch of every cycle that follows.
LocalWinsKeeps ==
  [][ \A c \in Slots :
        /\ LocalWinsStep(c) =>
             /\ UNCHANGED <<queue, state, store>>
             /\ cyc'[c].pc \notin {"setResolved", "deqResolved"}
             /\ keptLog' = <<Head(cyc[c].failed), "local">>
        /\ (ReadsBatch(c) /\ keptLog[2] = "local" /\ Has(queue, keptLog[1])) =>
             \E i \in 1..Len(cyc'[c].batch) : cyc'[c].batch[i] = queue[keptLog[1]]
    ]_vars

\* An operation kept by a local resolution is in the batch a later cycle is
\* pushing
LocalWinsKeepsWitness ==
  /\ keptLog[2] = "local"
  /\ \E c \in Slots :
       /\ cyc[c].pc = "push"
       /\ \E i \in 1..Len(cyc[c].batch) : cyc[c].batch[i].id = keptLog[1]

\* The step on which handleFailedOperation finds no remote state in the error
\* of the failed operation at hand, or one of another document
UnusableStep(c) ==
  /\ cyc[c].pc = "getFailed"
  /\ LET operationId == Head(cyc[c].failed) IN
       /\ Has(queue, operationId)
       /\ \E remoteState \in RemoteStates(queue[operationId]) :
            /\ remoteState = Null \/ remoteState.id # queue[operationId].docId
            /\ HandleFailed(c, remoteState)

\* C28: when a failed item carries no remote state, or one of another
\* document, the handling does not call the strategy (no resolution is
\* recorded, nothing is applied, the line logged is the missing remote state),
\* leaves the queue, the state and storage unchanged, and the operation, while
\* queued, is in the push batch of every cycle that follows.
UnusableKeeps ==
  [][ \A c \in Slots :
        /\ UnusableStep(c) =>
             /\ UNCHANGED <<queue, state, store, seen>>
             /\ cyc'[c].resolution = Null /\ cyc'[c].finalDoc = Null
             /\ cyc'[c].pc \notin {"setResolved", "deqResolved"}
             /\ keptLog' = <<Head(cyc[c].failed), "noRemoteState">>
        /\ (ReadsBatch(c) /\ keptLog[2] = "noRemoteState" /\ Has(queue, keptLog[1])) =>
             \E i \in 1..Len(cyc'[c].batch) : cyc'[c].batch[i] = queue[keptLog[1]]
    ]_vars

\* An operation kept for want of a remote state is in the batch a later cycle
\* is pushing, for the second time at least
UnusableKeepsWitness ==
  /\ keptLog[2] = "noRemoteState"
  /\ \E c \in Slots :
       /\ cyc[c].pc = "push"
       /\ \E i \in 1..Len(cyc[c].batch) : cyc[c].batch[i].id = keptLog[1]

\* C29: when api.push rejects, the cycle is aborted: no pull request is
\* issued for it, the queue is unchanged, and the engine is idle again with the
\* in-flight flag cleared.
PushRejectAborts ==
  [][ \A c \in Slots :
        PushRejects(c) =>
          /\ cyc'[c].pc = "idle"
          /\ isSyncing' = FALSE
          /\ queue' = queue
    ]_vars

\* C30: every cycle that has started ends: whichever calls of it reject, it
\* is idle again with the in-flight flag cleared; and whenever no cycle is in
\* flight the flag is clear, so that a trigger while connected starts a cycle.
CycleReturns ==
  /\ [](Active = {} => (~isSyncing /\ (online => ~TriggerGuard(online))))
  /\ \A c \in Slots : (cyc[c].pc # "idle") ~> (cyc[c].pc = "idle" /\ ~isSyncing)

\* No cycle is in flight and the flag is clear after a pull that delivered a
\* change and then failed: no cursor was ever persisted
CycleReturnsWitness ==
  /\ Active = {}
  /\ ~isSyncing
  /\ changesLeft < LiveChanges
  /\ metaCursor = NoCursor

\* The ids a cycle still has to dequeue or to handle
Pending(rec) ==
  {rec.successful[i] : i \in 1..Len(rec.successful)}
    \cup {rec.failed[i] : i \in 1..Len(rec.failed)}

\* C31: a cycle issues its pull request only when the push phase is through:
\* every successful id of the push response has left the queue, and every
\* failed item has been handled (no item is left over by an exception).
PushBeforePull ==
  [][ \A c \in Slots :
        IssuesPull(c) =>
          /\ \A i \in 1..Len(cyc[c].successful) : ~Has(queue', cyc[c].successful[i])
          /\ Len(cyc[c].failed) <= 1
          /\ Pending(cyc[c]) # {} => ~cyc'[c].pushError
    ]_vars

\* C32: a cycle reads the queue once, at its start, and calls api.push only
\* on that reading: not when the queue is empty (it goes on to pull), and
\* otherwise with exactly the operations queued, timestamps ascending.
PushOncePerCycle ==
  [][ \A c \in Slots :
        /\ (cyc[c].pc # "drain" /\ cyc'[c].pc = "drain") => cyc[c].pc = "idle"
        /\ (cyc[c].pc # "push" /\ cyc'[c].pc = "push") => cyc[c].pc = "drain"
        /\ (cyc[c].pc = "drain" /\ cyc'[c].pc # "drain") =>
             IF queue = EmptyMap
             THEN cyc'[c].pc \in {"pull", "idle"}
             ELSE /\ cyc'[c].pc \in {"push", "idle"}
                  /\ cyc'[c].pc = "push" =>
                       LET operations == cyc'[c].batch IN
                         /\ Len(operations) = Cardinality(DOMAIN queue)
                         /\ \A k \in DOMAIN queue :
                              \E i \in 1..Len(operations) : operations[i] = queue[k]
                         /\ \A i \in 1..(Len(operations) - 1) :
                              operations[i].timestamp <= operations[i + 1].timestamp
    ]_vars

\* A full queue is being pushed in an order that is not the order of the ids
PushOncePerCycleWitness ==
  \E c \in Slots :
    /\ cyc[c].pc = "push"
    /\ Len(cyc[c].batch) = MaxQueue
    /\ cyc[c].batch[1].id > cyc[c].batch[2].id

\* The operations fieldLevelMerge does not merge
Degrades(localOperation) ==
  localOperation.type # "update" \/ localOperation.payload = Null

\* C33: with fieldLevelMerge as the strategy, the handling of a conflict on a
\* create, a delete or an update without payload leaves behind what serverWins
\* would: the remote document as the document to apply, the state patched
\* with it, storage and queue untouched until the write and the dequeue that
\* follow, which store that document and remove the operation.
MergeDegradesToRemote ==
  [][ \A c \in Slots :
        /\ ( /\ strategy = "fieldLevelMerge"
             /\ cyc[c].pc = "getFailed"
             /\ Has(queue, Head(cyc[c].failed))
             /\ Degrades(queue[Head(cyc[c].failed)])
             /\ GetFailed(c)
             /\ ~UnusableStep(c) ) =>
             LET localOperation == queue[Head(cyc[c].failed)] IN
               \E remoteState \in RemoteStates(localOperation) :
                 /\ Usable(remoteState, localOperation)
                 /\ cyc'[c].pc = "setResolved"
                 /\ cyc'[c].finalDoc =
                      FinalDoc(serverWins(localOperation, remoteState), remoteState)
                 /\ state' = updateDoc(state, remoteState.id, remoteState)
                 /\ UNCHANGED <<queue, store, keptLog>>
        /\ ( /\ strategy = "fieldLevelMerge"
             /\ cyc[c].pc = "setResolved"
             /\ cyc'[c].pc = "deqResolved" ) =>
             store' = PersistSet(store, cyc[c].finalDoc) /\ UNCHANGED <<queue, state>>
        /\ ( /\ strategy = "fieldLevelMerge"
             /\ cyc[c].pc = "deqResolved"
             /\ cyc'[c].pc # "deqResolved" ) =>
             queue' = dequeue(queue, Head(cyc[c].failed)) /\ UNCHANGED <<store, state>>
    ]_vars

\* A conflict on an operation that is not merged was resolved under
\* fieldLevelMerge and the remote document is in the state and in storage
MergeDegradesToRemoteWitness ==
  /\ strategy = "fieldLevelMerge"
  /\ \E c \in Slots :
       /\ cyc[c].pc = "deqResolved"
       /\ Has(queue, Head(cyc[c].failed))
       /\ Degrades(queue[Head(cyc[c].failed)])
       /\ Has(state, "d1") /\ state["d1"] = cyc[c].finalDoc
       /\ store["d1"] = cyc[c].finalDoc
       /\ cyc[c].finalDoc = FullDoc("d1", "R")

\* The step on which handleFailedOperation calls the strategy: its item is
\* kept by a 'local' resolution or a resolved document is applied
InvokesStrategy(c) ==
  /\ cyc[c].pc = "getFailed"
  /\ \/ cyc'[c].pc = "setResolved" /\ cyc'[c].resolution # Null
     \/ /\ Has(queue, Head(cyc[c].failed))
        /\ keptLog' = <<Head(cyc[c].failed), "local">>
        /\ cyc'[c].failed = Tail(cyc[c].failed)

\* Each item handleFailedOperation handles is handled once, in the order
\* listed, and the strategy is called in that handling when the item's
\* operation is queued and the error carries a usable remote state, and on no
\* other step; the handling settles no call of the application and raises
\* nothing
HandledOnce(c) ==
  /\ GetFailed(c) =>
       LET operationId == Head(cyc[c].failed) IN
         /\ InvokesStrategy(c) =>
              /\ Has(queue, operationId)
              /\ ~UnusableStep(c)
              /\ operationId \notin {cyc[c].successful[i] :
                                       i \in 1..Len(cyc[c].successful)}
         /\ (Has(queue, operationId) /\ ~UnusableStep(c)) => InvokesStrategy(c)
         /\ cyc'[c].failed =
              IF cyc'[c].pc = "setResolved" THEN cyc[c].failed
              ELSE IF cyc'[c].pc = "pull" THEN << >> ELSE Tail(cyc[c].failed)
         /\ cyc'[c].pc = "pull" => Len(cyc[c].failed) = 1
         /\ call' = call
         /\ cyc'[c].pc # "idle" /\ ~cyc'[c].pushError
  /\ (cyc[c].pc = "deqResolved" /\ cyc'[c].pc = "pull" /\ ~cyc'[c].pushError) =>
       Len(cyc[c].failed) = 1
  /\ (cyc[c].pc \in {"ack", "setResolved", "deqResolved"}) =>
       /\ ~InvokesStrategy(c)
       /\ cyc'[c].resolution \in {Null, cyc[c].resolution}
       /\ (\A b \in Slots : cyc[b].pc # "getFailed") => keptLog' = keptLog
  /\ (cyc[c].pc = "ack" /\ cyc'[c].pc # "ack" /\ ~cyc'[c].pushError) =>
       cyc'[c].failed = (IF cyc'[c].pc = "pull" THEN << >> ELSE cyc[c].failed)

\* When the cycle leaves the push phase no failed item with a queued operation
\* is left that handleFailedOperation has not handled
NoneLeft(c) ==
  (cyc[c].pc \in {"ack", "getFailed", "setResolved", "deqResolved"}
     /\ cyc'[c].pc = "pull") =>
    \A i \in 1..Len(cyc[c].failed) :
      Has(queue', cyc[c].failed[i]) => (i = 1 /\ GetFailed(c))

\* C34 (as stated): within a cycle the strategy is called exactly once for
\* each failed item of the response whose operation is queued and whose error
\* carries a usable remote state, never for another item or for a successful
\* id, and nothing is raised to the application.
StrategyOncePerConflict ==
  [][ \A c \in Slots : HandledOnce(c) /\ NoneLeft(c) ]_vars

\* C34 (amended): the same for each failed item that handleFailedOperation
\* gets to handle; the items listed after one whose handling, or the dequeue
\* of a successful id before it, rejected are not handled in that cycle.
StrategyOncePerHandledItem ==
  [][ \A c \in Slots : HandledOnce(c) ]_vars

\* After operation 1 of a response of two left the queue, the strategy was
\* called for operation 2, listed as failed, and resolved it
StrategyOncePerHandledItemWitness ==
  \E c \in Slots :
    /\ cyc[c].pc = "setResolved"
    /\ cyc[c].resolution # Null
    /\ Head(cyc[c].failed) = 2
    /\ ~Has(queue, 1)
    /\ Len(cyc[c].batch) = 2

\* C35: a triggerSync() called while the detector reports offline starts no
\* cycle: no activation of it gets past the guard (so neither push nor pull is
\* called), the in-flight flag keeps its value, and queue, state, storage and
\* both cursors are unchanged.
OfflineTriggerNoCycle ==
  [][ (TriggerSyncCall /\ ~online) =>
        /\ UNCHANGED <<isSyncing, cyc>>
        /\ UNCHANGED <<queue, state, store, metaCursor, lastPulledAt>>
    ]_vars

\* triggerSync was just called offline with operations queued and no cycle in
\* flight, and none is in flight now
OfflineTriggerNoCycleWitness ==
  /\ lastCall = [name |-> "triggerSync", docId |-> "none", connected |-> FALSE]
  /\ ~online
  /\ queue # EmptyMap
  /\ Active = {}
  /\ ~isSyncing

\* The step on which persistence.set of a resolved document rejects
ResolvedWriteRejects(c) == cyc[c].pc = "setResolved" /\ PushPhaseFails(c)

\* C36: handleFailedOperation dequeues the operation it resolved only once
\* storage holds the resolved document; when the write of that document
\* rejects, the queue is left as it is, no further failed item is handled in
\* the cycle (it goes on to pull and ends), and nothing the rest of the cycle
\* does removes the operation.
DequeueAfterWrite ==
  [][ \A c \in Slots :
        /\ (cyc[c].pc \in {"getFailed", "setResolved"}
              /\ cyc'[c].pc \in {"setResolved", "deqResolved"}) => queue' = queue
        /\ (cyc[c].pc = "deqResolved" /\ queue' # queue) =>
             /\ Has(store, cyc[c].finalDoc.id)
             /\ store[cyc[c].finalDoc.id] = cyc[c].finalDoc
             /\ queue' = dequeue(queue, Head(cyc[c].failed))
        /\ ResolvedWriteRejects(c) =>
             /\ UNCHANGED <<queue, store>>
             /\ Has(queue', Head(cyc[c].failed))
             /\ cyc'[c].pc = "pull" /\ cyc'[c].failed = << >>
        /\ (cyc[c].pc \in {"pull", "apply", "saveCursor"}) =>
             /\ cyc'[c].pc \in {"pull", "apply", "saveCursor", "idle"}
             /\ cyc'[c].failed = << >>
             /\ (\A b \in Slots : b # c => cyc[b].pc = "idle") => queue' = queue
    ]_vars

\* A cycle has ended in which the resolved document reached the state but not
\* storage: its write rejected, and both operations of the batch are queued
DequeueAfterWriteWitness ==
  /\ Active = {}
  /\ load = "done"
  /\ Has(state, "d1") /\ state["d1"] # store["d1"]
  /\ Has(queue, 1) /\ Has(queue, 2)

\* The step on which handleFailedOperation finds that the operation of the
\* failed item at hand is not queued
AbsentStep(c) ==
  /\ cyc[c].pc = "getFailed"
  /\ ~Has(queue, Head(cyc[c].failed))
  /\ GetFailed(c)

\* C37: a failed item whose operation is not queued when it is handled (its
\* id was listed as successful too and dequeued, or was never queued) is
\* skipped: the strategy is not called, nothing is applied or logged, state,
\* storage and queue are unchanged, and the loop goes on with the next item.
AbsentItemSkipped ==
  [][ \A c \in Slots :
        AbsentStep(c) =>
          /\ UNCHANGED <<queue, state, store, seen, keptLog>>
          /\ ~InvokesStrategy(c)
          /\ cyc'[c].resolution = Null /\ cyc'[c].finalDoc = Null
          /\ ~cyc'[c].pushError
          /\ IF Len(cyc[c].failed) = 1
             THEN cyc'[c].pc = "pull"
             ELSE cyc'[c].pc = "getFailed" /\ cyc'[c].failed = Tail(cyc[c].failed)
    ]_vars

\* The item of operation 1, listed as successful and as failed, was skipped
\* and the item of operation 2 is next
AbsentItemSkippedWitness ==
  /\ lastCall.name = "skipFailed"
  /\ lastCall.operationId = 1
  /\ \E c \in Slots :
       /\ cyc[c].pc = "getFailed"
       /\ cyc[c].failed = <<2>>
       /\ Has(queue, 2)

\* C38: whenever no cycle and no cursor load is in flight, the engine's
\* in-memory cursor equals the cursor persisted in the metadata store, also
\* after a cycle in which persisting the cursor failed.
CursorInStep ==
  (Active = {} /\ cursorLoad = "done") => lastPulledAt = metaCursor

\* The step on which Collection.delete is called with an id the state does
\* not hold
DeleteAbsentStep ==
  /\ CallDelete
  /\ ~Has(state, call'.docId)

\* C39: delete(id) of an id absent from the state does not throw and calls
\* no subscriber: the state is unchanged and persistence.delete is issued;
\* when that write completes (a missing key is no error) one delete operation
\* of that id is built, and when the queue write completes it is queued and
\* the call has returned.
DeleteAbsent ==
  [][ /\ DeleteAbsentStep =>
           /\ state' = state
           /\ seen' = Silent
           /\ call'.pc = "persist" /\ call'.kind = "delete"
           /\ call'.outcome = "pending"
           /\ UNCHANGED <<store, queue>>
      /\ (call.kind = "delete" /\ CallPersist) =>
           /\ store' = PersistDelete(store, call.docId)
           /\ call'.op.type = "delete" /\ call'.op.docId = call.docId
           /\ call'.op.payload = Null
           /\ UNCHANGED <<state, queue>>
      /\ (call.kind = "delete" /\ CallEnqueue) =>
           /\ DOMAIN queue' = DOMAIN queue \cup {call.op.id}
           /\ call.op.id \notin DOMAIN queue
           /\ queue'[call.op.id] = call.op
           /\ call'.outcome = "ok"
           /\ UNCHANGED <<state, store>>
    ]_vars

\* delete("n1") has returned although no document n1 was ever added: its
\* delete operation is queued, the callback subscribed before it was not
\* called, and state and storage are as they were
DeleteAbsentWitness ==
  /\ usedDocIds = {}
  /\ call.outcome = "ok"
  /\ callsLeft = FacadeCalls - 1
  /\ \E k \in DOMAIN queue : queue[k].type = "delete" /\ queue[k].docId = "n1"
  /\ subscriptions # {}
  /\ ~Has(state, "n1") /\ ~Has(store, "n1")

\* C40: when a callback that throws is subscribed, a mutating call still has
\* its effect on the state, and every subscribed callback, the throwing one
\* and the others, is passed the list the collection holds after the call:
\* the forEach runs to its end, so nothing is thrown to the caller.
ThrowingSubscriberContained ==
  [][ (StateCall /\ Throwing \cap subscriptions # {}) =>
        LET name == lastCall'.name
            docId == lastCall'.docId
            notifies == name \in {"setCollectionState", "addDoc"} \/ Has(state, docId)
        IN
        /\ name = "addDoc" => Has(state', docId)
        /\ name = "deleteDoc" => ~Has(state', docId)
        /\ (name = "updateDoc" /\ Has(state, docId)) =>
             state' = Put(state, docId, Spread(state[docId], [title |-> "B"]))
        /\ notifies =>
             \A cb \in subscriptions : seen'[cb] = <<getCollectionState(state')>>
    ]_vars

\* A patch of a document the state holds was just made with the throwing
\* callback and another one subscribed, and both were passed the new list
ThrowingSubscriberContainedWitness ==
  /\ lastCall.name = "updateDoc"
  /\ Has(state, lastCall.docId) /\ state[lastCall.docId].title = "B"
  /\ subscriptions = Callbacks
  /\ Throwing # {}
  /\ \A cb \in Callbacks : seen[cb] = <<getCollectionState(state)>>

====
